---- MODULE Spec2Model ----
(***************************************************************************)
(* Model of exercises/ex3_signatures/solution.py (sign) and                *)
(* exercises/ex4_witness_data/solution.py (sign, get_pub_from_priv,        *)
(* get_p2wpkh_witness).  The sign of ex4 (lines 12-44) is line for line    *)
(* the sign of ex3 (lines 12-51); the line numbers quoted for sign are     *)
(* those of ex3.                                                           *)
(*                                                                         *)
(* Byte strings are sequences over 0..255.  A Python int is its big-endian *)
(* byte sequence without leading zero bytes (0 is the empty sequence), so  *)
(* that 256-bit values keep their full width.                              *)
(*                                                                         *)
(* The calls into the ecdsa package are modelled by what the package does  *)
(* at the call: key and digest validation, DER encoding and decoding and   *)
(* the compressed point encoding are computed; the curve arithmetic and    *)
(* the RFC 6979 nonce are tables (PointTable, RealSigTable) whose entries  *)
(* were computed for the sampled keys and digests, next to boundary raw    *)
(* signatures (BoundarySigs) that stand for any (r, s) in [1, order-1]^2.  *)
(***************************************************************************)
EXTENDS Integers, Sequences, FiniteSets, TLC

VARIABLES pc, op, private_key, commitment, sk, signature_der, r, s,
          signature_with_sighash, compressed_public_key, result, iters,
          signer

vars == <<pc, op, private_key, commitment, sk, signature_der, r, s,
          signature_with_sighash, compressed_public_key, result, iters,
          signer>>

\* ------------------------------------------------------------------ bounds

\* Number of callers that may have a call in flight at the same time.
NumCallers == 2

\* Cap on the passes through the while-True loop of sign that are explored.
MaxIters == 2

Callers == 1..NumCallers

\* --------------------------------------------------------- byte arithmetic

Byte == 0..255

Zeros(k) == [i \in 1..k |-> 0]

\* The value of a byte string read as a big-endian number: its bytes from
\* the first one that is not zero
StripZeros(b) ==
    LET nz == { i \in 1..Len(b) : b[i] # 0 }
    IN  IF nz = {} THEN <<>>
        ELSE SubSeq(b, CHOOSE i \in nz : \A j \in nz : i <= j, Len(b))

\* ecdsa.util.string_to_number: int(hexlify(string), 16)
string_to_number(b) == StripZeros(b)

\* ecdsa.util.number_to_string: the value left-padded to the curve's length
number_to_string(x, l) == Zeros(l - Len(x)) \o x

\* a < b for byte strings of one length
LexLess(a, b) ==
    \E j \in 1..Len(a) :
        /\ a[j] < b[j]
        /\ \A k \in 1..(j - 1) : a[k] = b[k]

\* a < b and a <= b on Python ints
IntLess(a, b) ==
    \/ Len(a) < Len(b)
    \/ Len(a) = Len(b) /\ LexLess(a, b)

IntLeq(a, b) == a = b \/ IntLess(a, b)

\* a - b byte by byte for strings of one length: position i borrows when
\* the bytes after it are below those of b
SubBytes(a, b) ==
    LET borrow(i) ==
            IF \E j \in (i + 1)..Len(a) :
                   /\ a[j] < b[j]
                   /\ \A k \in (i + 1)..(j - 1) : a[k] = b[k]
            THEN 1 ELSE 0
    IN  [i \in 1..Len(a) |-> (a[i] - b[i] - borrow(i) + 256) % 256]

\* a - b on Python ints, for a >= b
IntSub(a, b) == StripZeros(SubBytes(a, number_to_string(b, Len(a))))

\* every byte takes the low bit of the byte before it
ShiftRight(a) ==
    [i \in 1..Len(a) |-> ((IF i > 1 THEN a[i - 1] % 2 ELSE 0) * 256 + a[i]) \div 2]

\* a // 2 on Python ints
IntHalf(a) == StripZeros(ShiftRight(a))

\* y & 1
IntOdd(a) == a # <<>> /\ a[Len(a)] % 2 = 1

RECURSIVE NatBytes(_)
NatBytes(k) == IF k = 0 THEN <<>> ELSE NatBytes(k \div 256) \o << k % 256 >>

RECURSIVE BytesNat(_)
BytesNat(b) ==
    IF b = <<>> THEN 0 ELSE 256 * BytesNat(SubSeq(b, 1, Len(b) - 1)) + b[Len(b)]

\* string[i:] of Python, i counted from 0
Drop(b, i) == SubSeq(b, i + 1, Len(b))

\* ------------------------------------------------------------- secp256k1

\* SECP256k1.baselen
baselen == 32

\* SECP256k1.order
order ==
    <<255, 255, 255, 255, 255, 255, 255, 255, 255, 255, 255, 255, 255, 255,
      255, 254, 186, 174, 220, 230, 175, 72, 160, 59, 191, 210, 94, 140, 208,
      54, 65, 65>>

\* SECP256k1.order // 2
half_order == IntHalf(order)

Gx ==
    <<121, 190, 102, 126, 249, 220, 187, 172, 85, 160, 98, 149, 206, 135, 11,
      7, 2, 155, 252, 219, 45, 206, 40, 217, 89, 242, 129, 91, 22, 248, 23,
      152>>

Gy ==
    <<72, 58, 218, 119, 38, 163, 196, 101, 93, 164, 251, 252, 14, 17, 8, 168,
      253, 23, 180, 72, 166, 133, 84, 25, 156, 71, 208, 143, 251, 16, 212,
      184>>

\* The point 153*G, whose x-coordinate takes 31 bytes, and the y-coordinate
\* of (order-1)*G = -G.
P153x ==
    <<227, 174, 25, 116, 86, 108, 160, 108, 197, 22, 212, 126, 15, 177,
    101, 166, 116, 163, 218, 188, 252, 161, 94, 114, 47, 14, 52, 80,
    244, 88, 137>>

P153y ==
    <<42, 234, 190, 126, 69, 49, 81, 1, 22, 33, 127, 7, 191, 77, 7, 48,
    13, 233, 126, 72, 116, 248, 31, 83, 52, 32, 167, 46, 235, 11, 214,
    164>>

NegGy ==
    <<183, 197, 37, 136, 217, 92, 59, 154, 162, 91, 4, 3, 241, 238, 247,
    87, 2, 232, 75, 183, 89, 122, 171, 230, 99, 184, 47, 111, 4, 239,
    39, 119>>

\* ------------------------------------------------------------------ inputs

\* Private keys: the scalars 1, 153 and order-1 (valid), and 0, order, a
\* 31-byte and a 33-byte string (invalid).
K1 == number_to_string(<<1>>, baselen)

K153 == number_to_string(<<153>>, baselen)

KMax == IntSub(order, <<1>>)

KZero == Zeros(baselen)

KOrder == order

KShort == Drop(K1, 1)

KLong == <<0>> \o K1

ValidKeys == {K1, K153, KMax}

Keys == ValidKeys \cup {KZero, KOrder, KShort, KLong}

\* Commitments: SHA256(SHA256("test")), its SHA256, and a 31-byte and a
\* 33-byte string.
D32 ==
    <<149, 77, 90, 73, 253, 112, 217, 184, 188, 219, 53, 210, 82, 38,
    120, 41, 149, 127, 126, 247, 250, 108, 116, 248, 132, 25, 189, 197,
    232, 34, 9, 244>>

D32b ==
    <<190, 46, 244, 151, 27, 36, 64, 93, 240, 84, 31, 149, 254, 97, 88,
    172, 102, 30, 105, 151, 19, 55, 255, 114, 96, 178, 25, 209, 5, 110,
    188, 59>>

D31 == Drop(D32, 1)

D33 == D32 \o <<7>>

Commitments == {D32, D32b, D31, D33}

\* ecdsa's curve arithmetic: the point secexp * G for the sampled scalars.
PointTable ==
    { [d |-> <<1>>, x |-> Gx, y |-> Gy],
      [d |-> <<153>>, x |-> P153x, y |-> P153y],
      [d |-> string_to_number(KMax), x |-> Gx, y |-> NegGy] }

\* RFC 6979 nonce and ECDSA over secp256k1 with SHA-256: the raw (r, s) for
\* the sampled (secexp, digest number) pairs.
RealSigTable ==
    {
      [d |-> <<1>>, z |-> string_to_number(D32),
       r |-> <<5, 191, 94, 156, 83, 40, 24, 31, 32, 160, 99, 96, 121, 141, 231,
              108, 255, 49, 73, 218, 169, 208, 74, 103, 247, 66, 173, 142, 131,
              242, 180, 103>>,
       s |-> <<111, 142, 135, 172, 231, 106, 215, 56, 247, 139, 87, 86, 45, 213,
              180, 224, 114, 190, 226, 97, 219, 24, 213, 70, 151, 243, 118, 215,
              124, 69, 39, 179>>],
      [d |-> <<1>>, z |-> string_to_number(D32b),
       r |-> <<79, 127, 244, 242, 222, 252, 117, 106, 7, 175, 251, 113, 250, 94,
              36, 128, 165, 134, 186, 143, 111, 103, 218, 19, 10, 191, 138, 87,
              91, 126, 123, 142>>,
       s |-> <<182, 239, 158, 105, 106, 184, 92, 50, 40, 101, 129, 75, 60, 176,
              228, 103, 25, 91, 189, 74, 111, 228, 122, 135, 121, 47, 223, 102,
              124, 199, 220, 177>>],
      [d |-> <<1>>, z |-> string_to_number(D31),
       r |-> <<180, 62, 95, 3, 202, 108, 104, 196, 38, 65, 168, 15, 144, 66, 235,
              121, 34, 33, 185, 191, 72, 154, 236, 159, 91, 146, 195, 117, 15,
              183, 121, 198>>,
       s |-> <<128, 30, 58, 109, 28, 30, 101, 208, 106, 25, 36, 7, 123, 39, 182,
              37, 186, 239, 190, 107, 150, 122, 27, 250, 246, 87, 243, 228, 179,
              113, 75, 107>>],
      [d |-> <<153>>, z |-> string_to_number(D32),
       r |-> <<239, 144, 156, 221, 57, 46, 2, 131, 225, 211, 35, 218, 196, 103,
              196, 199, 94, 106, 11, 103, 71, 109, 238, 177, 69, 225, 215, 226,
              62, 84, 16, 164>>,
       s |-> <<221, 34, 219, 41, 233, 10, 184, 98, 121, 79, 226, 129, 70, 148,
              11, 56, 93, 181, 79, 163, 199, 242, 218, 226, 145, 134, 114, 3, 81,
              82, 237, 234>>],
      [d |-> <<153>>, z |-> string_to_number(D32b),
       r |-> <<44, 44, 118, 52, 231, 63, 239, 189, 108, 186, 54, 158, 28, 147,
              115, 60, 51, 249, 210, 20, 104, 91, 215, 245, 118, 230, 62, 193,
              248, 156, 37, 208>>,
       s |-> <<2, 33, 239, 11, 146, 178, 171, 147, 114, 34, 161, 251, 7, 3, 156,
              165, 69, 23, 254, 69, 150, 50, 68, 92, 135, 195, 131, 81, 145, 120,
              140, 100>>],
      [d |-> <<153>>, z |-> string_to_number(D31),
       r |-> <<88, 70, 63, 18, 82, 122, 134, 24, 100, 65, 245, 91, 16, 29, 94,
              80, 98, 76, 104, 116, 32, 226, 11, 246, 133, 30, 156, 45, 96, 198,
              16, 62>>,
       s |-> <<56, 57, 31, 124, 230, 157, 56, 92, 90, 57, 90, 55, 108, 0, 24, 97,
              135, 144, 239, 151, 131, 80, 188, 129, 51, 158, 15, 213, 38, 45, 86,
              217>>],
      [d |-> string_to_number(KMax), z |-> string_to_number(D32),
       r |-> <<57, 124, 155, 153, 193, 33, 59, 127, 53, 114, 126, 70, 200, 2,
              241, 240, 235, 24, 139, 161, 162, 234, 229, 225, 233, 38, 52, 76,
              132, 3, 168, 175>>,
       s |-> <<51, 49, 179, 199, 34, 228, 183, 126, 203, 33, 191, 180, 223, 187,
              209, 44, 67, 199, 72, 132, 241, 1, 78, 81, 17, 60, 78, 20, 24, 178,
              220, 135>>],
      [d |-> string_to_number(KMax), z |-> string_to_number(D32b),
       r |-> <<15, 48, 99, 217, 79, 84, 8, 78, 29, 154, 140, 127, 144, 111, 97,
              202, 209, 203, 182, 71, 227, 15, 115, 106, 240, 124, 49, 146, 197,
              207, 105, 245>>,
       s |-> <<253, 62, 169, 81, 71, 255, 234, 249, 151, 87, 218, 99, 109, 40,
              251, 141, 8, 181, 194, 115, 171, 149, 36, 131, 50, 11, 217, 77, 147,
              129, 84, 119>>],
      [d |-> string_to_number(KMax), z |-> string_to_number(D31),
       r |-> <<144, 173, 72, 203, 27, 222, 29, 178, 220, 126, 212, 154, 41, 53,
              34, 14, 8, 239, 229, 126, 101, 79, 110, 84, 119, 233, 40, 235, 181,
              198, 22, 107>>,
       s |-> <<76, 21, 171, 166, 56, 85, 128, 211, 141, 233, 62, 132, 9, 192,
              108, 167, 253, 34, 193, 224, 65, 23, 27, 243, 59, 26, 217, 21, 131,
              17, 207, 178>>] }

\* Raw signatures on the boundaries of [1, order-1]: s = order//2 + 1,
\* s = order-1, s = order//2, s = 1, s = order-128 and a 32-byte s with the
\* high bit set, with r of full length, of one byte, with and without the
\* high bit.
BoundarySigs ==
    << [r |-> <<128>> \o Zeros(31),
        s |-> <<127, 255, 255, 255, 255, 255, 255, 255, 255, 255, 255, 255, 255,
              255, 255, 255, 93, 87, 110, 115, 87, 164, 80, 29, 223, 233, 47, 70,
              104, 27, 32, 161>>],
       [r |-> <<127>>, s |-> IntSub(order, <<1>>)],
       [r |-> IntSub(order, <<1>>), s |-> IntHalf(order)],
       [r |-> <<1>>, s |-> <<1>>],
       [r |-> <<127>> \o Zeros(31), s |-> IntSub(order, <<128>>)],
       [r |-> <<128>> \o Zeros(30), s |-> <<128>> \o Zeros(31)] >>

\* -------------------------------------------------------- ecdsa.der, util

\* der.encode_length
encode_length(l) ==
    IF l < 128 THEN <<l>>
    ELSE <<128 + Len(NatBytes(l))>> \o NatBytes(l)

\* der.encode_integer: a zero byte goes first when the top bit is set
encode_integer(x) ==
    LET h == IF x = <<>> THEN <<0>> ELSE x
    IN  IF h[1] <= 127
        THEN <<2>> \o encode_length(Len(h)) \o h
        ELSE <<2>> \o encode_length(Len(h) + 1) \o <<0>> \o h

\* der.encode_sequence over the concatenated pieces
encode_sequence(pieces) == <<48>> \o encode_length(Len(pieces)) \o pieces

\* util.sigencode_der
sigencode_der(x, y) == encode_sequence(encode_integer(x) \o encode_integer(y))

DerError == [ok |-> FALSE, length |-> 0, llen |-> 0, value |-> <<>>, rest |-> <<>>]

\* der.read_length: (length, bytes used), or UnexpectedDER
read_length(string) ==
    IF string = <<>> THEN DerError
    ELSE IF string[1] < 128
    THEN [DerError EXCEPT !.ok = TRUE, !.length = string[1], !.llen = 1]
    ELSE LET llen == string[1] - 128
         IN  IF llen = 0 \/ llen > Len(string) - 1 THEN DerError
             ELSE IF string[2] = 0 \/ (llen = 1 /\ string[2] < 128) THEN DerError
             ELSE [DerError EXCEPT !.ok = TRUE,
                                   !.length = BytesNat(SubSeq(string, 2, 1 + llen)),
                                   !.llen = 1 + llen]

\* der.remove_sequence: (body, rest), or UnexpectedDER
remove_sequence(string) ==
    IF string = <<>> \/ string[1] # 48 THEN DerError
    ELSE LET l == read_length(Drop(string, 1))
         IN  IF ~l.ok \/ l.length > Len(string) - 1 - l.llen THEN DerError
             ELSE [DerError EXCEPT
                       !.ok = TRUE,
                       !.value = SubSeq(string, 2 + l.llen, 1 + l.llen + l.length),
                       !.rest = Drop(string, 1 + l.llen + l.length)]

\* der.remove_integer: (int, rest), or UnexpectedDER for a negative integer,
\* an empty one or one with unnecessary zero padding
remove_integer(string) ==
    IF string = <<>> \/ string[1] # 2 THEN DerError
    ELSE LET l == read_length(Drop(string, 1))
         IN  IF ~l.ok \/ l.length > Len(string) - 1 - l.llen \/ l.length = 0
             THEN DerError
             ELSE LET numberbytes == SubSeq(string, 2 + l.llen, 1 + l.llen + l.length)
                  IN  IF numberbytes[1] >= 128 THEN DerError
                      ELSE IF l.length > 1 /\ numberbytes[1] = 0 /\ numberbytes[2] < 128
                      THEN DerError
                      ELSE [DerError EXCEPT
                                !.ok = TRUE,
                                !.value = StripZeros(numberbytes),
                                !.rest = Drop(string, 1 + l.llen + l.length)]

\* util.sigdecode_der: [ok, r, s]; ok is FALSE where the call raises
sigdecode_der(sig_der) ==
    LET seq == remove_sequence(sig_der)
        ri  == remove_integer(seq.value)
        si  == remove_integer(ri.rest)
    IN  IF ~seq.ok \/ seq.rest # <<>> THEN [ok |-> FALSE, r |-> <<>>, s |-> <<>>]
        ELSE IF ~ri.ok THEN [ok |-> FALSE, r |-> <<>>, s |-> <<>>]
        ELSE IF ~si.ok \/ si.rest # <<>> THEN [ok |-> FALSE, r |-> <<>>, s |-> <<>>]
        ELSE [ok |-> TRUE, r |-> ri.value, s |-> si.value]

\* ----------------------------------------------------- ecdsa.keys calls

\* Faulty variant of from_string_raises: the range test lets the order
\* itself through (secexp <= order).
from_string_loose(string) ==
    \/ Len(string) # baselen
    \/ ~(IntLeq(<<1>>, string_to_number(string))
         /\ IntLeq(string_to_number(string), order))

\* SigningKey.from_string(private_key, curve=SECP256k1) raises
\* MalformedPointError unless the string has baselen bytes and its number is
\* in [1, order-1]
from_string_raises(string) ==
    \/ Len(string) # baselen
    \/ ~(IntLeq(<<1>>, string_to_number(string))
         /\ IntLess(string_to_number(string), order))

\* sign_digest_deterministic raises BadDigestError for a digest longer than
\* baselen (allow_truncate is left False); a shorter digest is signed
sign_digest_raises(digest) == Len(digest) > baselen

\* Faulty variant of sign_number: the nonce is drawn from state the calls
\* share (here the number of calls in flight), as sign_digest would draw it
\* from the system's entropy, instead of from the key and the digest.
sign_number_shared(secexp, digest) ==
    BoundarySigs[1 + Cardinality({c \in Callers : pc[c] \notin {"idle", "done"}})]

\* The raw (r, s) of the deterministic signature.  RFC 6979 makes it a
\* function of the secret exponent and the digest's number: signer 0 is the
\* computed table, signer i > 0 the i-th boundary signature.  Pairs outside
\* the table do not reach this call.
sign_number(secexp, digest) ==
    IF signer > 0 THEN BoundarySigs[signer]
    ELSE LET hit == { e \in RealSigTable :
                        e.d = secexp /\ e.z = string_to_number(digest) }
         IN  IF hit = {} THEN BoundarySigs[1]
             ELSE LET e == CHOOSE e \in hit : TRUE IN [r |-> e.r, s |-> e.s]

\* sk.verifying_key: the point secexp * G
verifying_key(secexp) ==
    LET hit == { e \in PointTable : e.d = secexp }
    IN  IF hit = {} THEN [x |-> Gx, y |-> Gy]
        ELSE LET e == CHOOSE e \in hit : TRUE IN [x |-> e.x, y |-> e.y]

\* Faulty variant of to_string_compressed: the prefix follows the parity of
\* x.
to_string_x_parity(point) ==
    (IF IntOdd(point.x) THEN <<3>> ELSE <<2>>) \o number_to_string(point.x, baselen)

\* vk.to_string("compressed"): 0x02 for an even y, 0x03 for an odd y, then x
\* on baselen bytes
to_string_compressed(point) ==
    (IF IntOdd(point.y) THEN <<3>> ELSE <<2>>) \o number_to_string(point.x, baselen)

\* ------------------------------------------------------- steps of the code

Ops == {"sign", "get_pub_from_priv", "get_p2wpkh_witness"}

NoResult == [status |-> "none", exc |-> "", value |-> <<>>]

\* A call that returns value
returned(value) == [status |-> "ok", exc |-> "", value |-> value]

\* Faulty variant of propagate: get_p2wpkh_witness catches what its calls
\* raise and returns the stack it has so far.
propagate_swallowed(o, exc) ==
    IF o = "get_p2wpkh_witness"
    THEN [status |-> "ok", exc |-> "", value |-> <<2, 0>>]
    ELSE [status |-> "raise", exc |-> exc, value |-> <<>>]

\* An exception leaves the function that raised it and, no handler being
\* installed, every caller above it: the call ends with the exception and
\* no value
propagate(o, exc) == [status |-> "raise", exc |-> exc, value |-> <<>>]

\* s > SECP256k1.order // 2
is_high_s(sv) == IntLess(half_order, sv)

\* Faulty variant of to_low_s: s is left as it is.
to_low_s_kept(sv) == sv

\* s = SECP256k1.order - s
to_low_s(sv) == IntSub(order, sv)

\* Faulty variant of reencode_der: the encoding keeps the s the signer gave
\* (order minus the new s), as when line 42 is left out.
reencode_high(rv, sv) == sigencode_der(rv, IntSub(order, sv))

\* Faulty variant of reencode_der: both integers are written on 32 bytes,
\* with no zero byte in front of a set high bit and none stripped.
reencode_fixed(rv, sv) ==
    encode_sequence(<<2, 32>> \o number_to_string(rv, 32)
                    \o <<2, 32>> \o number_to_string(sv, 32))

\* signature_der = util.sigencode_der(r, s, SECP256k1.order), with the new s
reencode_der(rv, sv) == sigencode_der(rv, sv)

\* Faulty variant of add_sighash: the flag byte is appended twice.
add_sighash_twice(der) == der \o <<1, 1>>

\* signature_with_sighash = signature_der + b'\x01'
add_sighash(der) == der \o <<1>>

\* s <= SECP256k1.order // 2
exit_test(sv) == IntLeq(sv, half_order)

\* bytes([n]) raises ValueError unless n is in range(256)
bytes_raises(n) == n < 0 \/ n > 255

\* Faulty variant of serialize_witness: the signature's prefix is the length
\* of its DER part, without the sighash byte.
serialize_witness_der_len(sig, pk) ==
    <<2>> \o (<<Len(sig) - 1>> \o sig) \o (<<Len(pk)>> \o pk)

\* num_witness_items + (sig_len + signature) + (pk_len + public key)
serialize_witness(sig, pk) == <<2>> \o (<<Len(sig)>> \o sig) \o (<<Len(pk)>> \o pk)

Init ==
    /\ pc = [c \in Callers |-> "idle"]
    /\ op = [c \in Callers |-> "none"]
    /\ private_key = [c \in Callers |-> <<>>]
    /\ commitment = [c \in Callers |-> <<>>]
    /\ sk = [c \in Callers |-> <<>>]
    /\ signature_der = [c \in Callers |-> <<>>]
    /\ r = [c \in Callers |-> <<>>]
    /\ s = [c \in Callers |-> <<>>]
    /\ signature_with_sighash = [c \in Callers |-> <<>>]
    /\ compressed_public_key = [c \in Callers |-> <<>>]
    /\ result = [c \in Callers |-> NoResult]
    /\ iters = [c \in Callers |-> 0]
    /\ signer \in 0..Len(BoundarySigs)

\* The call ends: with an exception, or with a value
Finish(c, res) ==
    /\ pc' = [pc EXCEPT ![c] = "done"]
    /\ result' = [result EXCEPT ![c] = res]

\* A caller invokes one of the three functions on a key and a commitment.
\* get_p2wpkh_witness starts with its call of sign (line 59).
Call(c, ops, keys, msgs) ==
    /\ pc[c] = "idle"
    /\ \E o \in ops, k \in keys :
         \E m \in (IF o = "get_pub_from_priv" THEN {<<>>} ELSE msgs) :
            /\ op' = [op EXCEPT ![c] = o]
            /\ private_key' = [private_key EXCEPT ![c] = k]
            /\ commitment' = [commitment EXCEPT ![c] = m]
            /\ pc' = [pc EXCEPT ![c] =
                        IF o = "get_pub_from_priv" THEN "pub_from_string"
                        ELSE "from_string"]
    /\ UNCHANGED <<sk, signature_der, r, s, signature_with_sighash,
                   compressed_public_key, result, iters, signer>>

\* sign, line 25: sk = SigningKey.from_string(private_key, curve=SECP256k1)
sign_from_string(c) ==
    /\ pc[c] = "from_string"
    /\ IF from_string_raises(private_key[c])
       THEN /\ Finish(c, propagate(op[c], "MalformedPointError"))
            /\ UNCHANGED sk
       ELSE /\ sk' = [sk EXCEPT ![c] = string_to_number(private_key[c])]
            /\ pc' = [pc EXCEPT ![c] = "sign_digest"]
            /\ UNCHANGED result
    /\ UNCHANGED <<op, private_key, commitment, signature_der, r, s,
                   signature_with_sighash, compressed_public_key, iters, signer>>

\* sign, lines 27-33: one more pass of the loop starts with
\* sk.sign_digest_deterministic(commitment, sha256, sigencode_der)
sign_digest_deterministic(c) ==
    /\ pc[c] = "sign_digest"
    /\ iters[c] < MaxIters
    /\ iters' = [iters EXCEPT ![c] = @ + 1]
    /\ IF sign_digest_raises(commitment[c])
       THEN /\ Finish(c, propagate(op[c], "BadDigestError"))
            /\ UNCHANGED signature_der
       ELSE /\ signature_der' = [signature_der EXCEPT ![c] =
                  LET raw == sign_number(sk[c], commitment[c])
                  IN  sigencode_der(raw.r, raw.s)]
            /\ pc' = [pc EXCEPT ![c] = "sigdecode"]
            /\ UNCHANGED result
    /\ UNCHANGED <<op, private_key, commitment, sk, r, s,
                   signature_with_sighash, compressed_public_key, signer>>

\* sign, line 36: r, s = util.sigdecode_der(signature_der, SECP256k1.order)
sign_sigdecode(c) ==
    /\ pc[c] = "sigdecode"
    /\ LET d == sigdecode_der(signature_der[c])
       IN  IF ~d.ok
           THEN /\ Finish(c, propagate(op[c], "UnexpectedDER"))
                /\ UNCHANGED <<r, s>>
           ELSE /\ r' = [r EXCEPT ![c] = d.r]
                /\ s' = [s EXCEPT ![c] = d.s]
                /\ pc' = [pc EXCEPT ![c] = "low_s"]
                /\ UNCHANGED result
    /\ UNCHANGED <<op, private_key, commitment, sk, signature_der,
                   signature_with_sighash, compressed_public_key, iters, signer>>

\* sign, lines 39-42: a high s is replaced by order - s and the pair encoded
\* again
sign_low_s(c) ==
    /\ pc[c] = "low_s"
    /\ IF is_high_s(s[c])
       THEN /\ s' = [s EXCEPT ![c] = to_low_s(s[c])]
            /\ signature_der' = [signature_der EXCEPT ![c] =
                                    reencode_der(r[c], to_low_s(s[c]))]
       ELSE UNCHANGED <<s, signature_der>>
    /\ pc' = [pc EXCEPT ![c] = "add_sighash"]
    /\ UNCHANGED <<op, private_key, commitment, sk, r, signature_with_sighash,
                   compressed_public_key, result, iters, signer>>

\* sign, line 45: signature_with_sighash = signature_der + b'\x01'
sign_add_sighash(c) ==
    /\ pc[c] = "add_sighash"
    /\ signature_with_sighash' = [signature_with_sighash EXCEPT ![c] =
                                     add_sighash(signature_der[c])]
    /\ pc' = [pc EXCEPT ![c] = "exit_test"]
    /\ UNCHANGED <<op, private_key, commitment, sk, signature_der, r, s,
                   compressed_public_key, result, iters, signer>>

\* sign, lines 48-49: break when s is low, else the loop starts over
sign_exit_test(c) ==
    /\ pc[c] = "exit_test"
    /\ pc' = [pc EXCEPT ![c] = IF exit_test(s[c]) THEN "return" ELSE "sign_digest"]
    /\ UNCHANGED <<op, private_key, commitment, sk, signature_der, r, s,
                   signature_with_sighash, compressed_public_key, result,
                   iters, signer>>

\* sign, line 51: return signature_with_sighash, to the caller of sign or to
\* line 62 of get_p2wpkh_witness
sign_return(c) ==
    /\ pc[c] = "return"
    /\ IF op[c] = "sign"
       THEN Finish(c, returned(signature_with_sighash[c]))
       ELSE /\ pc' = [pc EXCEPT ![c] = "pub_from_string"]
            /\ UNCHANGED result
    /\ UNCHANGED <<op, private_key, commitment, sk, signature_der, r, s,
                   signature_with_sighash, compressed_public_key, iters, signer>>

\* get_pub_from_priv, line 48: sk = SigningKey.from_string(priv, SECP256k1)
pub_from_string(c) ==
    /\ pc[c] = "pub_from_string"
    /\ IF from_string_raises(private_key[c])
       THEN /\ Finish(c, propagate(op[c], "MalformedPointError"))
            /\ UNCHANGED sk
       ELSE /\ sk' = [sk EXCEPT ![c] = string_to_number(private_key[c])]
            /\ pc' = [pc EXCEPT ![c] = "pub_to_string"]
            /\ UNCHANGED result
    /\ UNCHANGED <<op, private_key, commitment, signature_der, r, s,
                   signature_with_sighash, compressed_public_key, iters, signer>>

\* get_pub_from_priv, lines 49-51: the compressed key is returned, to the
\* caller or to line 65 of get_p2wpkh_witness
pub_to_string(c) ==
    /\ pc[c] = "pub_to_string"
    /\ compressed_public_key' = [compressed_public_key EXCEPT ![c] =
                                    to_string_compressed(verifying_key(sk[c]))]
    /\ IF op[c] = "get_pub_from_priv"
       THEN Finish(c, returned(to_string_compressed(verifying_key(sk[c]))))
       ELSE /\ pc' = [pc EXCEPT ![c] = "serialize"]
            /\ UNCHANGED result
    /\ UNCHANGED <<op, private_key, commitment, sk, signature_der, r, s,
                   signature_with_sighash, iters, signer>>

\* get_p2wpkh_witness, lines 65-77: count, length-prefixed signature,
\* length-prefixed public key
witness_serialize(c) ==
    /\ pc[c] = "serialize"
    /\ IF \/ bytes_raises(Len(signature_with_sighash[c]))
          \/ bytes_raises(Len(compressed_public_key[c]))
       THEN Finish(c, propagate(op[c], "ValueError"))
       ELSE Finish(c, returned(serialize_witness(signature_with_sighash[c],
                                                 compressed_public_key[c])))
    /\ UNCHANGED <<op, private_key, commitment, sk, signature_der, r, s,
                   signature_with_sighash, compressed_public_key, iters, signer>>

\* The caller takes the outcome; the frame of the call is gone
Return(c) ==
    /\ pc[c] = "done"
    /\ pc' = [pc EXCEPT ![c] = "idle"]
    /\ op' = [op EXCEPT ![c] = "none"]
    /\ private_key' = [private_key EXCEPT ![c] = <<>>]
    /\ commitment' = [commitment EXCEPT ![c] = <<>>]
    /\ sk' = [sk EXCEPT ![c] = <<>>]
    /\ signature_der' = [signature_der EXCEPT ![c] = <<>>]
    /\ r' = [r EXCEPT ![c] = <<>>]
    /\ s' = [s EXCEPT ![c] = <<>>]
    /\ signature_with_sighash' = [signature_with_sighash EXCEPT ![c] = <<>>]
    /\ compressed_public_key' = [compressed_public_key EXCEPT ![c] = <<>>]
    /\ result' = [result EXCEPT ![c] = NoResult]
    /\ iters' = [iters EXCEPT ![c] = 0]
    /\ UNCHANGED signer

Step(c) ==
    \/ sign_from_string(c)
    \/ sign_digest_deterministic(c)
    \/ sign_sigdecode(c)
    \/ sign_low_s(c)
    \/ sign_add_sighash(c)
    \/ sign_exit_test(c)
    \/ sign_return(c)
    \/ pub_from_string(c)
    \/ pub_to_string(c)
    \/ witness_serialize(c)
    \/ Return(c)

\* One caller, every sampled input and every signer: the functions as a
\* sequential program runs them.
Next == \E c \in {1} : Call(c, Ops, Keys, Commitments) \/ Step(c)

Spec == Init /\ [][Next]_vars

\* Calls in flight at the same time (threads), interleaved statement by
\* statement, on the computed signatures.
ConcKeys == {K1, KShort}

ConcCommitments == {D32, D32b, D33}

InitConc == Init /\ signer = 0

NextConc == \E c \in Callers : Call(c, Ops, ConcKeys, ConcCommitments) \/ Step(c)

SpecConc == InitConc /\ [][NextConc]_vars

\* ------------------------------------------------------------- properties

\* A private key the curve accepts: 32 bytes, not zero, below the order.
ValidKey(k) == Len(k) = 32 /\ k # Zeros(32) /\ LexLess(k, order)

\* sign has returned to its caller: a finished call of sign, or the call of
\* sign at line 59 of get_p2wpkh_witness once control is back in the witness.
SignReturned(c) ==
    \/ op[c] = "sign" /\ pc[c] = "done" /\ result[c].status = "ok"
    \/ /\ op[c] = "get_p2wpkh_witness"
       /\ \/ pc[c] \in {"pub_from_string", "pub_to_string", "serialize"}
          \/ pc[c] = "done" /\ signature_with_sighash[c] # <<>>

SignValue(c) ==
    IF op[c] = "sign" THEN result[c].value ELSE signature_with_sighash[c]

\* The output without its last byte.
DerPart(out) == SubSeq(out, 1, Len(out) - 1)

\* The raw signature the underlying signer gives the call's inputs.
RawOf(c) == sign_number(string_to_number(private_key[c]), commitment[c])

\* The smaller of s and order - s.
LowOf(sv) == IF IntLess(half_order, sv) THEN IntSub(order, sv) ELSE sv

\* C1: the s decoded from the DER part of every value sign returns is at
\* most order // 2, whatever raw (r, s) the signer produced.
C1_LowS ==
    \A c \in Callers :
        SignReturned(c) =>
            LET d == sigdecode_der(DerPart(SignValue(c)))
            IN  d.ok /\ IntLeq(d.s, half_order)

\* C1 witness: sign has returned for a raw signature whose s was high.
C1_Witness ==
    \E c \in Callers :
        /\ SignReturned(c)
        /\ ValidKey(private_key[c])
        /\ IntLess(half_order, RawOf(c).s)

\* C2: two finished calls of sign on the same key and commitment hold the
\* same outcome, byte for byte, however the calls were interleaved with each
\* other and with other calls.
C2_Deterministic ==
    \A a, b \in Callers :
        ( /\ pc[a] = "done" /\ pc[b] = "done"
          /\ op[a] = "sign" /\ op[b] = "sign"
          /\ private_key[a] = private_key[b]
          /\ commitment[a] = commitment[b] )
        => result[a] = result[b]

\* C2 witness: two callers have both finished sign on the same inputs with
\* a signature.
C2_Witness ==
    \E a, b \in Callers :
        /\ a # b
        /\ pc[a] = "done" /\ pc[b] = "done"
        /\ op[a] = "sign" /\ op[b] = "sign"
        /\ private_key[a] = private_key[b]
        /\ commitment[a] = commitment[b]
        /\ result[a].status = "ok"
        /\ Len(result[a].value) > 60

\* What sign and get_pub_from_priv return on their own for the inputs.
ExpectedSig(k, m) ==
    LET raw == sign_number(string_to_number(k), m)
    IN  sigencode_der(raw.r, LowOf(raw.s)) \o <<1>>

ExpectedPub(k) ==
    LET point == verifying_key(string_to_number(k))
    IN  (IF point.y[Len(point.y)] % 2 = 0 THEN <<2>> ELSE <<3>>)
        \o Zeros(32 - Len(point.x)) \o point.x

\* C3: a witness that is returned is byte(2), byte(len(sig)), sig,
\* byte(len(pubkey)), pubkey, with sig the output of sign and pubkey the
\* output of get_pub_from_priv on the same inputs; the prefixes are the
\* lengths of the items and the total is 1 + 1 + len(sig) + 1 + 33.
C3_WitnessLayout ==
    \A c \in Callers :
        (pc[c] = "done" /\ op[c] = "get_p2wpkh_witness" /\ result[c].status = "ok")
        => LET w   == result[c].value
               sig == ExpectedSig(private_key[c], commitment[c])
               pk  == ExpectedPub(private_key[c])
               n   == Len(sig)
           IN  /\ Len(w) = 1 + 1 + n + 1 + 33
               /\ w[1] = 2
               /\ w[2] = n
               /\ SubSeq(w, 3, 2 + n) = sig
               /\ w[3 + n] = 33
               /\ Len(pk) = 33
               /\ SubSeq(w, 4 + n, Len(w)) = pk

\* C3 witness: a witness has been returned for a signature whose raw s was
\* high.
C3_Witness ==
    \E c \in Callers :
        /\ pc[c] = "done" /\ op[c] = "get_p2wpkh_witness"
        /\ result[c].status = "ok"
        /\ IntLess(half_order, RawOf(c).s)

\* C4: with a private key that is not 32 bytes, or is zero or not below the
\* order, every one of the three functions ends with the key error
\* (MalformedPointError, the InvalidKey of the design) and no output.
C4_InvalidKey ==
    \A c \in Callers :
        (pc[c] = "done" /\ ~ValidKey(private_key[c]))
        => /\ result[c].status = "raise"
           /\ result[c].exc = "MalformedPointError"
           /\ result[c].value = <<>>

\* C4 witness: get_p2wpkh_witness has ended on the key equal to the order.
C4_Witness ==
    \E c \in Callers :
        /\ pc[c] = "done" /\ op[c] = "get_p2wpkh_witness"
        /\ private_key[c] = KOrder
        /\ result[c].status = "raise"

\* C5: sign on a valid key and a commitment that is not 32 bytes long ends
\* with an error instead of a signature.
C5_CommitmentLength ==
    \A c \in Callers :
        ( /\ pc[c] = "done" /\ op[c] = "sign"
          /\ ValidKey(private_key[c])
          /\ Len(commitment[c]) # 32 )
        => result[c].status = "raise"

\* C6: every value sign returns is the DER encoding of (r, s), s made low,
\* followed by the one byte 0x01.
C6_Sighash ==
    \A c \in Callers :
        SignReturned(c) =>
            LET out == SignValue(c)
            IN  /\ out[Len(out)] = 1
                /\ DerPart(out) = sigencode_der(RawOf(c).r, LowOf(RawOf(c).s))

\* C6 witness: sign has returned a signature whose s was low from the start.
C6_Witness ==
    \E c \in Callers :
        /\ op[c] = "sign" /\ SignReturned(c)
        /\ ~IntLess(half_order, RawOf(c).s)

\* A DER INTEGER's content is minimal: not empty, not negative, and a leading
\* zero byte only in front of a byte with the high bit set.
MinimalInt(b) ==
    /\ Len(b) >= 1
    /\ b[1] < 128
    /\ (b[1] = 0 /\ Len(b) > 1) => b[2] >= 128

\* C7: the DER part of every value sign returns is SEQUENCE { INTEGER r,
\* INTEGER s } with minimal integers (a zero byte in front exactly when the
\* high bit is set), and decoding it and encoding the result again gives the
\* same bytes.
C7_RoundTrip ==
    \A c \in Callers :
        SignReturned(c) =>
            LET der == DerPart(SignValue(c))
                d   == sigdecode_der(der)
                rl  == der[4]
                sl  == der[6 + rl]
                rb  == SubSeq(der, 5, 4 + rl)
                sb  == SubSeq(der, 7 + rl, 6 + rl + sl)
            IN  /\ d.ok
                /\ sigencode_der(d.r, d.s) = der
                /\ der[1] = 48 /\ der[2] = Len(der) - 2
                /\ der[3] = 2 /\ der[5 + rl] = 2
                /\ Len(der) = 6 + rl + sl
                /\ MinimalInt(rb) /\ MinimalInt(sb)
                /\ (rb[1] = 0 /\ Len(rb) > 1) <=> RawOf(c).r[1] >= 128
                /\ (sb[1] = 0 /\ Len(sb) > 1) <=> LowOf(RawOf(c).s)[1] >= 128

\* C7 witness: sign has returned an encoding made at line 42 in which r
\* carries the extra zero byte.
C7_Witness ==
    \E c \in Callers :
        /\ SignReturned(c)
        /\ IntLess(half_order, RawOf(c).s)
        /\ SignValue(c)[5] = 0

\* C8: for a valid key get_pub_from_priv returns 33 bytes that depend on the
\* key alone: 0x02 for an even y of privateKey * G and 0x03 for an odd one,
\* then x on 32 bytes; for the scalar 1, the compressed generator.
C8_PublicKey ==
    \A c \in Callers :
        ( /\ pc[c] = "done" /\ op[c] = "get_pub_from_priv"
          /\ ValidKey(private_key[c]) )
        => LET v     == result[c].value
               point == verifying_key(string_to_number(private_key[c]))
           IN  /\ result[c].status = "ok"
               /\ Len(v) = 33
               /\ v[1] = (IF point.y[Len(point.y)] % 2 = 0 THEN 2 ELSE 3)
               /\ StripZeros(SubSeq(v, 2, 33)) = point.x
               /\ private_key[c] = K1 => v = <<2>> \o Gx

\* C8 witness: the key of an odd y (order - 1) has been encoded.
C8_Witness ==
    \E c \in Callers :
        /\ pc[c] = "done" /\ op[c] = "get_pub_from_priv"
        /\ private_key[c] = KMax
        /\ result[c].value[1] = 3

\* C9: the loop of sign is passed exactly once: at the exit test s is low,
\* for every raw s, so the signing step is not entered a second time.
C9_LoopOnce ==
    \A c \in Callers :
        /\ iters[c] <= 1
        /\ pc[c] = "exit_test" => IntLeq(s[c], half_order)
        /\ pc[c] = "return" => iters[c] = 1

\* C9 witness: sign leaves the loop after one pass in which s was negated.
C9_Witness ==
    \E c \in Callers :
        /\ pc[c] = "return" /\ iters[c] = 1
        /\ IntLess(half_order, RawOf(c).s)

\* C10: get_p2wpkh_witness ends with an exception and no output exactly when
\* its call of sign or of get_pub_from_priv raises; the length prefixes
\* always fit one byte, so the serialization itself never raises.
C10_WitnessFailure ==
    \A c \in Callers :
        /\ (pc[c] = "done" /\ op[c] = "get_p2wpkh_witness")
           => /\ result[c].status = "raise"
                 <=> \/ from_string_raises(private_key[c])
                     \/ sign_digest_raises(commitment[c])
              /\ result[c].status = "raise" => result[c].value = <<>>
              /\ result[c].status = "ok" => result[c].value # <<>>
        /\ pc[c] = "serialize"
           => /\ Len(signature_with_sighash[c]) \in 0..255
              /\ Len(compressed_public_key[c]) \in 0..255

\* C10 witness: get_p2wpkh_witness has ended with the exception its call of
\* sign raised on a valid key.
C10_Witness ==
    \E c \in Callers :
        /\ pc[c] = "done" /\ op[c] = "get_p2wpkh_witness"
        /\ ValidKey(private_key[c])
        /\ result[c].status = "raise"

====
